---- MODULE Spec2Model ----
(***************************************************************************)
(* Model of backend/main.py of the AI Fashion Advisor: the /api/analyze    *)
(* handler (analyze_fashion), the advice call (get_fashion_advice_gemini)  *)
(* and the image-provider fallback chain (generate_fashion_image).         *)
(*                                                                         *)
(* Provider steps are named as in the specification:                       *)
(*   A  = Replicate flux-schnell        (lines 145-166)                    *)
(*   B  = OpenAI gpt-image-1            (lines 168-188)                    *)
(*   C  = Stability AI REST API         (lines 190-228)                    *)
(*   D  = Nebius AI REST API            (lines 230-274)                    *)
(*   E  = OpenAI DALL-E 3               (lines 276-289)                    *)
(*   E2 = OpenAI DALL-E 2, fixed prompt (lines 290-303)                    *)
(* What each provider answers to a request is an input of that request     *)
(* (env), drawn when the request is submitted, as a mock provider's        *)
(* programmed answer would be; the chain decides which of them are asked.  *)
(***************************************************************************)
EXTENDS Integers, Sequences, FiniteSets, TLC

VARIABLES cfg, upload, env, pc, calls, caught, raised, result,
          adviceCalls, advice, resp, dir, written, now,
          synthCalls, prompt, sent

vars == <<cfg, upload, env, pc, calls, caught, raised, result,
          adviceCalls, advice, resp, dir, written, now,
          synthCalls, prompt, sent>>

\* ------------------------------------------------------------------ bounds

\* Largest value the clock reading int(time.time()) takes in the model.
MaxTime == 1

\* Largest number of pieces of an advice text of SpecPrompt.
MaxPieces == 3

\* ------------------------------------------------------------- vocabulary

Reqs == {"r1", "r2"}

Steps == {"A", "B", "C", "D", "E", "E2"}

\* The fixed priority order of the provider steps.
Order == <<"A", "B", "C", "D", "E", "E2">>

\* What an upload can be: a part whose content type is not image/*, a part
\* with no content type at all, an image/* part that does not decode, and
\* an image/* part that decodes.
UploadKinds == {"nonimage", "notype", "badimage", "image"}

HasContentType(u) == u # "notype"

ContentTypeIsImage(u) == u \in {"badimage", "image"}

Decodable(u) == u = "image"

\* Outcomes of one provider call.  "exc": the call (or the handling of its
\* answer) raises; "empty": it returns normally without an image (a falsy
\* or empty output list, empty response.data, no artifacts, no images);
\* "non200": an HTTP status other than 200 (REST providers only); "ok".
Outcomes(s) ==
  IF s \in {"C", "D"} THEN {"exc", "non200", "empty", "ok"}
                      ELSE {"exc", "empty", "ok"}

Fail == {"exc", "non200", "empty"}

\* Outcomes of the single advice-model call: it raises, it returns an empty
\* text, or it returns an advice text.
GOutcomes == {"exc", "empty", "ok"}

None == <<>>

\* ------------------------------------------------------------------ texts

\* A text is a sequence of pieces <<w, n>>: the first n characters of the
\* run of characters w.  A piece is a word, a whole sentence, or a run of n
\* characters that are neither letters nor part of any word ("pad").
Piece(w, n) == <<w, n>>

Str(w, n) == <<Piece(w, n)>>

EmptyText == << >>

RECURSIVE TextLen(_)
\* len(text)
TextLen(t) == IF t = << >> THEN 0 ELSE Head(t)[2] + TextLen(Tail(t))

RECURSIVE Truncate(_, _)
\* text[:k]
Truncate(t, k) ==
  IF t = << >> \/ k <= 0 THEN << >>
  ELSE IF Head(t)[2] <= k
         THEN <<Head(t)>> \o Truncate(Tail(t), k - Head(t)[2])
         ELSE <<Piece(Head(t)[1], k)>>

APOLOGY     == Str("We couldn't analyze your fashion image at this time. Please try again later.", 76)
PLACEHOLDER == Str("Could not generate fashion advice at this time.", 47)
FALLBACK    == Str("We encountered an error analyzing your image. Please try again later.", 69)
ADVICE      == Str("Pair the navy blazer with grey trousers.", 40)

\* ------------------------------------------------- prompt construction

\* max_prompt_length
MaxPromptLength == 800

PREFIX == Piece("Create a professional photograph showing a fashion outfit based on this advice: ", 80)

KEYWORD_PREFIX == Piece("Create a professional fashion photograph showing an outfit with: ", 65)

GENERIC_PROMPT == Str("Create a professional fashion photograph showing a stylish outfit suitable for various occasions", 96)

DEGRADED_PROMPT == Str("professional fashion outfit", 27)

\* common_fashion_terms, in the order of declaration.
FashionTerms ==
  <<
  Piece("dress", 5), Piece("suit", 4), Piece("formal", 6),
     Piece("casual", 6), Piece("business", 8), Piece("professional", 12),
     Piece("shirt", 5), Piece("blouse", 6), Piece("skirt", 5),
     Piece("pants", 5), Piece("trousers", 8), Piece("jeans", 5),
     Piece("jacket", 6), Piece("blazer", 6), Piece("coat", 4),
     Piece("sweater", 7), Piece("cardigan", 8), Piece("shoes", 5),
     Piece("accessories", 11), Piece("jewelry", 7), Piece("elegant", 7),
     Piece("stylish", 7), Piece("modern", 6), Piece("classic", 7) >>

\* colors, in the order of declaration.
Colors ==
  <<
  Piece("red", 3), Piece("blue", 4), Piece("green", 5), Piece("yellow", 6),
     Piece("black", 5), Piece("white", 5), Piece("grey", 4),
     Piece("gray", 4), Piece("purple", 6), Piece("pink", 4),
     Piece("orange", 6), Piece("brown", 5), Piece("navy", 4),
     Piece("teal", 4), Piece("maroon", 6), Piece("beige", 5) >>

\* The order in which the two lists are scanned.
Vocabulary == FashionTerms \o Colors

VocabWords == {Vocabulary[i][1] : i \in 1..Len(Vocabulary)}

\* A sentence in which every vocabulary term occurs.
EVERYTHING ==
  Piece("dress suit formal casual business professional shirt blouse skirt pants trousers jeans jacket blazer coat sweater cardigan shoes accessories jewelry elegant stylish modern classic red blue green yellow black white grey gray purple pink orange brown navy teal maroon beige",
        271)

\* A run of n characters without letters.
Pad(n) == Piece(".", n)

\* str.lower() of a run of characters.
Lower(w) ==
  CASE w = "Navy"   -> "navy"
    [] w = "Pair the navy blazer with grey trousers."
                    -> "pair the navy blazer with grey trousers."
    [] w = "We couldn't analyze your fashion image at this time. Please try again later."
                    -> "we couldn't analyze your fashion image at this time. please try again later."
    [] OTHER        -> w

\* The vocabulary terms that are substrings of a run of characters, as it
\* is written.
TermsWithin(w) ==
  CASE w \in VocabWords -> {w}
    [] w = "considered" -> {"red"}
    [] w = "pair the navy blazer with grey trousers."
                        -> {"trousers", "blazer", "grey", "navy"}
    [] w \in {PREFIX[1], KEYWORD_PREFIX[1], DEGRADED_PROMPT[1][1]}
                        -> {"professional"}
    [] w = GENERIC_PROMPT[1][1]
                        -> {"suit", "professional", "stylish"}
    [] w = EVERYTHING[1]
                        -> VocabWords
    [] OTHER            -> {}

\* term in fashion_advice.lower()
Contains(term, a) ==
  \E i \in 1..Len(a) : term \in TermsWithin(Lower(a[i][1]))

\* ExtractedTerms, in the order in which the terms appear in the advice.
ExtractedTermsInTextOrder(a) ==
  LET Hit(i) == {j \in 1..Len(Vocabulary) :
                   Vocabulary[j][1] \in TermsWithin(Lower(a[i][1]))}
      Hits == [i \in 1..Len(a) |->
                 IF Hit(i) = {} THEN << >>
                 ELSE <<Vocabulary[CHOOSE j \in Hit(i) : TRUE]>>]
      F[i \in 0..Len(a)] ==
        IF i = 0 THEN << >>
        ELSE IF Hits[i] # << >> /\ \A k \in 1..Len(F[i-1]) : F[i-1][k] # Hits[i][1]
               THEN F[i-1] \o Hits[i]
               ELSE F[i-1]
  IN F[Len(a)]

\* extracted_terms: the terms of both lists found in the advice, each list
\* scanned in its order.
ExtractedTerms(a) ==
  LET Found(v) == Contains(v[1], a)
  IN SelectSeq(FashionTerms, Found) \o SelectSeq(Colors, Found)

RECURSIVE Join(_)
\* " ".join(terms)
Join(ts) ==
  IF ts = << >> THEN << >>
  ELSE IF Len(ts) = 1 THEN <<Head(ts)>>
  ELSE <<Head(ts), Piece(" ", 1)>> \o Join(Tail(ts))

\* Lines 139 and 141: the prompt of the keyword path.
CondensedPrompt(a) ==
  LET extracted == ExtractedTerms(a)
  IN IF extracted # << >> THEN <<KEYWORD_PREFIX>> \o Join(extracted)
                          ELSE GENERIC_PROMPT

\* RefinedPrompt, without the keyword path: the advice is only truncated.
RefinedPromptTruncating(a) == <<PREFIX>> \o Truncate(a, MaxPromptLength)

\* RefinedPrompt, measuring the advice instead of the prompt made of it.
RefinedPromptMeasuringAdvice(a) ==
  LET naive == <<PREFIX>> \o Truncate(a, MaxPromptLength)
  IN IF TextLen(a) > MaxPromptLength THEN CondensedPrompt(a) ELSE naive

\* RefinedPrompt, taking the keyword path as soon as the budget is reached.
RefinedPromptAtBudget(a) ==
  LET naive == <<PREFIX>> \o Truncate(a, MaxPromptLength)
  IN IF TextLen(naive) >= MaxPromptLength THEN CondensedPrompt(a) ELSE naive

\* refined_prompt (lines 116-141).
RefinedPrompt(a) ==
  LET naive == <<PREFIX>> \o Truncate(a, MaxPromptLength)
  IN IF TextLen(naive) > MaxPromptLength THEN CondensedPrompt(a) ELSE naive

\* The model each step asks for.
ModelOf(s) ==
  CASE s = "A"  -> "flux-schnell"
    [] s = "B"  -> "gpt-image-1"
    [] s = "C"  -> "stable-diffusion-xl-1024-v1-0"
    [] s = "D"  -> "kandinsky-3"
    [] s = "E"  -> "dall-e-3"
    [] s = "E2" -> "dall-e-2"

\* --------------------------------------------------------- configuration

\* Which credentials the process found in its environment at start-up.
Configs ==
  [replicate : BOOLEAN, openai : BOOLEAN, stability : BOOLEAN,
   nebiusKey : BOOLEAN, nebiusFolder : BOOLEAN, gemini : BOOLEAN]

\* The credential test that guards each provider step.
Configured(c, s) ==
  CASE s = "A" -> c.replicate
    [] s \in {"B", "E", "E2"} -> c.openai
    [] s = "C" -> c.stability
    [] s = "D" -> c.nebiusKey /\ c.nebiusFolder

\* The answers the providers hold ready for one request.  A provider
\* without credentials answers nothing ("na").  T is the text of the advice
\* model's answer when it has one.
Answers(c, s) == IF Configured(c, s) THEN Outcomes(s) ELSE {"na"}

Envs(c) ==
  [A : Answers(c, "A"), B : Answers(c, "B"), C : Answers(c, "C"),
   D : Answers(c, "D"), E : Answers(c, "E"), E2 : Answers(c, "E2"),
   G : IF c.gemini THEN GOutcomes ELSE {"na"}, T : {ADVICE}]

NoEnv ==
  [A |-> "na", B |-> "na", C |-> "na", D |-> "na", E |-> "na", E2 |-> "na",
   G |-> "na", T |-> EmptyText]

\* ------------------------------------------------------ image references

\* replicate.run's output list when the model produced images.
ReplicateOutput(o) ==
  IF o = "ok" THEN << <<"remote", "flux-schnell", 1>>, <<"remote", "flux-schnell", 2>> >>
              ELSE << >>

\* response.data[0].url of an OpenAI images.generate answer.
HostedUrl(model) == <<"remote", model, 0>>

\* f"{tag}_{int(time.time())}.png"
Filename(tag, t) == <<tag, t>>

\* f"http://localhost:8000/generated-images/{filename}"
LocalUrl(f) == <<"local", f[1], f[2]>>

NoResp == [status |-> 0]

\* -------------------------------------------------------------- initial

\* The requests of `present` have been submitted, with the uploads u and
\* the provider answers e; nothing has run yet.
Submitted(present, u, e) ==
  /\ upload = [r \in Reqs |-> IF r \in present THEN u[r] ELSE "absent"]
  /\ env = [r \in Reqs |-> IF r \in present THEN e[r] ELSE NoEnv]
  /\ pc = [r \in Reqs |-> IF r \in present THEN "validate" ELSE "absent"]
  /\ calls = [r \in Reqs |-> << >>]
  /\ caught = [r \in Reqs |-> {}]
  /\ raised = [r \in Reqs |-> FALSE]
  /\ result = [r \in Reqs |-> None]
  /\ adviceCalls = [r \in Reqs |-> 0]
  /\ advice = [r \in Reqs |-> EmptyText]
  /\ resp = [r \in Reqs |-> NoResp]
  /\ dir = {}
  /\ written = [r \in Reqs |-> << >>]
  /\ now = 0
  /\ synthCalls = [r \in Reqs |-> 0]
  /\ prompt = [r \in Reqs |-> EmptyText]
  /\ sent = [r \in Reqs |-> << >>]

\* One request, with any upload and any provider answers, is submitted to a
\* process with any configuration.
Init ==
  /\ cfg \in Configs
  /\ \E u \in [{"r1"} -> UploadKinds], e \in [{"r1"} -> Envs(cfg)] :
       Submitted({"r1"}, u, e)

\* ------------------------------------------------- analyze_fashion, part 1

\* Rejection, without the check of the advice provider's key.
RejectionNoKeyCheck(u, c) ==
  CASE ~HasContentType(u)     -> {400, 500}
    [] ~ContentTypeIsImage(u) -> {400}
    [] OTHER                  -> {0}

\* The checks made before the handler's try block: the statuses the request
\* can be rejected with, {0} when it goes on.  For a part without a content
\* type, file.content_type is None or "" depending on the framework's
\* version: startswith raises outside the try block (status 500) or is
\* false (status 400).
Rejection(u, c) ==
  CASE ~HasContentType(u)     -> {400, 500}
    [] ~ContentTypeIsImage(u) -> {400}
    [] ~c.gemini              -> {500}
    [] OTHER                  -> {0}

Validate(r) ==
  /\ pc[r] = "validate"
  /\ \E st \in Rejection(upload[r], cfg) :
       IF st # 0
         THEN /\ resp' = [resp EXCEPT ![r] = [status |-> st]]
              /\ pc' = [pc EXCEPT ![r] = "done"]
         ELSE /\ pc' = [pc EXCEPT ![r] = "decode"]
              /\ UNCHANGED resp
  /\ UNCHANGED <<cfg, upload, env, calls, caught, raised, result,
                 adviceCalls, advice, dir, written, now, synthCalls, prompt,
                 sent>>

\* The body FashionResponse(text_advice=FALLBACK, image_url=None) of the
\* handler's except clause.
FallbackResponse ==
  [status |-> 200, text_advice |-> FALLBACK, image_url |-> None]

\* Decode, outside the try block: a decode failure is a server error.
DecodeUnhandled(r) ==
  /\ pc[r] = "decode"
  /\ IF Decodable(upload[r])
       THEN /\ pc' = [pc EXCEPT ![r] = "advice"]
            /\ UNCHANGED resp
       ELSE /\ resp' = [resp EXCEPT ![r] = [status |-> 500]]
            /\ pc' = [pc EXCEPT ![r] = "done"]
  /\ UNCHANGED <<cfg, upload, env, calls, caught, raised, result,
                 adviceCalls, advice, dir, written, now, synthCalls, prompt,
                 sent>>

\* file.read(), Image.open, image.save(JPEG), base64: an upload that does
\* not decode raises inside the try block.
Decode(r) ==
  /\ pc[r] = "decode"
  /\ IF Decodable(upload[r])
       THEN /\ pc' = [pc EXCEPT ![r] = "advice"]
            /\ UNCHANGED resp
       ELSE /\ resp' = [resp EXCEPT ![r] = FallbackResponse]
            /\ pc' = [pc EXCEPT ![r] = "done"]
  /\ UNCHANGED <<cfg, upload, env, calls, caught, raised, result,
                 adviceCalls, advice, dir, written, now, synthCalls, prompt,
                 sent>>

\* ---------------------------------------------- get_fashion_advice_gemini

\* What get_fashion_advice_gemini returns when the model call is answered
\* as e says.
AdviceText(e) ==
  CASE e.G = "ok"    -> e.T
    [] e.G = "empty" -> EmptyText
    [] OTHER         -> APOLOGY

\* GetAdvice, calling the model a second time when the first call raised.
GetAdviceRetry(r) ==
  /\ pc[r] = "advice"
  /\ adviceCalls' = [adviceCalls EXCEPT ![r] =
                       IF env[r].G \in {"ok", "empty"} THEN @ + 1 ELSE @ + 2]
  /\ advice' = [advice EXCEPT ![r] = AdviceText(env[r])]
  /\ pc' = [pc EXCEPT ![r] = "prompt"]
  /\ UNCHANGED <<cfg, upload, env, calls, caught, raised, result, resp,
                 dir, written, now, synthCalls, prompt, sent>>

GetAdvice(r) ==
  /\ pc[r] = "advice"
  /\ adviceCalls' = [adviceCalls EXCEPT ![r] = @ + 1]
  /\ advice' = [advice EXCEPT ![r] = AdviceText(env[r])]
  /\ pc' = [pc EXCEPT ![r] = "prompt"]
  /\ UNCHANGED <<cfg, upload, env, calls, caught, raised, result, resp,
                 dir, written, now, synthCalls, prompt, sent>>

\* ------------------------------------------------- generate_fashion_image

\* BuildPrompt, with no image generated when the advice call failed.
BuildPromptUnlessApology(r) ==
  /\ pc[r] = "prompt"
  /\ IF advice[r] = APOLOGY
       THEN /\ pc' = [pc EXCEPT ![r] = "assemble"]
            /\ UNCHANGED <<synthCalls, prompt>>
       ELSE /\ synthCalls' = [synthCalls EXCEPT ![r] = @ + 1]
            /\ prompt' = [prompt EXCEPT ![r] = RefinedPrompt(advice[r])]
            /\ pc' = [pc EXCEPT ![r] = "A"]
  /\ UNCHANGED <<cfg, upload, env, calls, caught, raised, result, resp,
                 adviceCalls, advice, dir, written, now, sent>>

\* generate_fashion_image(text_advice) is entered and builds refined_prompt
\* (lines 408, 112-143).
BuildPrompt(r) ==
  /\ pc[r] = "prompt"
  /\ synthCalls' = [synthCalls EXCEPT ![r] = @ + 1]
  /\ prompt' = [prompt EXCEPT ![r] = RefinedPrompt(advice[r])]
  /\ pc' = [pc EXCEPT ![r] = "A"]
  /\ UNCHANGED <<cfg, upload, env, calls, caught, raised, result, resp,
                 adviceCalls, advice, dir, written, now, sent>>

\* Handler, with the Stability step's except clause missing.
HandlerNoStabilityClause(s) == IF s = "C" THEN "outer" ELSE s

\* The except clause that catches an exception raised in a provider step:
\* every step is wrapped in a try/except Exception of its own.  "outer" is
\* the except clause of the whole function body (line 306).
Handler(s) == s

\* The step goes on to the next statement, `next`.
Fall(r, next) ==
  /\ pc' = [pc EXCEPT ![r] = next]
  /\ UNCHANGED <<result, caught, raised>>

\* return v
Return(r, v) ==
  /\ pc' = [pc EXCEPT ![r] = "assemble"]
  /\ result' = [result EXCEPT ![r] = v]
  /\ UNCHANGED <<caught, raised>>

\* Step s raises: the exception is caught by the step's own except clause
\* and the code after that clause, `next`, runs; caught by the function's
\* outer clause, the function returns None; caught by nothing, it leaves
\* the function.
Catch(r, s, next) ==
  LET h == Handler(s) IN
    /\ caught' = [caught EXCEPT ![r] = @ \cup {<<s, h>>}]
    /\ CASE h = s       -> /\ pc' = [pc EXCEPT ![r] = next]
                           /\ UNCHANGED <<result, raised>>
         [] h = "outer" -> /\ pc' = [pc EXCEPT ![r] = "assemble"]
                           /\ result' = [result EXCEPT ![r] = None]
                           /\ UNCHANGED raised
         [] OTHER       -> /\ pc' = [pc EXCEPT ![r] = "assemble"]
                           /\ raised' = [raised EXCEPT ![r] = TRUE]
                           /\ UNCHANGED result

\* The prompt step s passes to its provider: refined_prompt, or the fixed
\* prompt of the DALL-E 2 step.
PromptFor(r, s) == IF s = "E2" THEN DEGRADED_PROMPT ELSE prompt[r]

\* The provider of step s is called.
Call(r, s) ==
  /\ calls' = [calls EXCEPT ![r] = Append(@, s)]
  /\ sent' = [sent EXCEPT ![r] = Append(@, <<s, ModelOf(s), PromptFor(r, s)>>)]

\* img.save(os.path.join(generated_images_dir, filename)), the filename
\* made of the provider tag and the clock's reading t in whole seconds.
Persist(r, tag, t) ==
  LET f == Filename(tag, t) IN
    /\ dir' = {d \in dir : d.name # f} \cup {[name |-> f, owner |-> r]}
    /\ written' = [written EXCEPT ![r] = Append(@, f)]
    /\ now' = t

NoWrite == UNCHANGED <<dir, written, now>>

\* StepA, going on to the next provider after a success.
StepANoReturn(r) ==
  /\ pc[r] = "A"
  /\ IF Configured(cfg, "A")
       THEN /\ Call(r, "A")
            /\ LET o == env[r].A
                   output == ReplicateOutput(o)
               IN CASE o = "exc"       -> Catch(r, "A", "B")
                    [] Len(output) > 0 ->
                         /\ pc' = [pc EXCEPT ![r] = "B"]
                         /\ result' = [result EXCEPT ![r] = output[1]]
                         /\ UNCHANGED <<caught, raised>>
                    [] OTHER           -> Fall(r, "B")
       ELSE /\ Fall(r, "B")
            /\ UNCHANGED <<calls, sent>>
  /\ NoWrite
  /\ UNCHANGED <<cfg, upload, env, adviceCalls, advice, resp, synthCalls, prompt>>

\* Replicate flux-schnell (lines 145-166).
StepA(r) ==
  /\ pc[r] = "A"
  /\ IF Configured(cfg, "A")
       THEN /\ Call(r, "A")
            /\ LET o == env[r].A
                   output == ReplicateOutput(o)
               IN CASE o = "exc"       -> Catch(r, "A", "B")
                    [] Len(output) > 0 -> Return(r, output[1])
                    [] OTHER           -> Fall(r, "B")
       ELSE /\ Fall(r, "B")
            /\ UNCHANGED <<calls, sent>>
  /\ NoWrite
  /\ UNCHANGED <<cfg, upload, env, adviceCalls, advice, resp, synthCalls, prompt>>

\* The OpenAI guard and gpt-image-1 (lines 168-188).  Stability, Nebius and
\* the DALL-E steps are the body of this step's except clause.
StepB(r) ==
  /\ pc[r] = "B"
  /\ IF ~Configured(cfg, "B")
       THEN /\ Return(r, None)
            /\ UNCHANGED <<calls, sent>>
       ELSE /\ Call(r, "B")
            /\ LET o == env[r].B
               IN CASE o = "exc" -> Catch(r, "B", "C")
                    [] o = "ok"  -> Return(r, HostedUrl("gpt-image-1"))
                    [] OTHER     -> Return(r, None)
  /\ NoWrite
  /\ UNCHANGED <<cfg, upload, env, adviceCalls, advice, resp, synthCalls, prompt>>

\* Stability AI (lines 190-228).
StepC(r) ==
  /\ pc[r] = "C"
  /\ IF Configured(cfg, "C")
       THEN /\ Call(r, "C")
            /\ LET o == env[r].C
               IN CASE o = "exc" -> Catch(r, "C", "D") /\ NoWrite
                    [] o = "ok"  ->
                         \E t \in now..MaxTime :
                           /\ Persist(r, "stability", t)
                           /\ Return(r, LocalUrl(Filename("stability", t)))
                    [] OTHER     -> Fall(r, "D") /\ NoWrite
       ELSE /\ Fall(r, "D")
            /\ NoWrite
            /\ UNCHANGED <<calls, sent>>
  /\ UNCHANGED <<cfg, upload, env, adviceCalls, advice, resp, synthCalls, prompt>>

\* StepD, storing the answer's body before looking at its status.
StepDSaveFirst(r) ==
  /\ pc[r] = "D"
  /\ IF Configured(cfg, "D")
       THEN /\ Call(r, "D")
            /\ LET o == env[r].D
               IN CASE o = "exc" -> Catch(r, "D", "E") /\ NoWrite
                    [] o = "ok"  ->
                         \E t \in now..MaxTime :
                           /\ Persist(r, "nebius", t)
                           /\ Return(r, LocalUrl(Filename("nebius", t)))
                    [] OTHER     ->
                         \E t \in now..MaxTime :
                           /\ Persist(r, "nebius", t)
                           /\ Fall(r, "E")
       ELSE /\ Fall(r, "E")
            /\ NoWrite
            /\ UNCHANGED <<calls, sent>>
  /\ UNCHANGED <<cfg, upload, env, adviceCalls, advice, resp, synthCalls, prompt>>

\* Nebius AI (lines 230-274).
StepD(r) ==
  /\ pc[r] = "D"
  /\ IF Configured(cfg, "D")
       THEN /\ Call(r, "D")
            /\ LET o == env[r].D
               IN CASE o = "exc" -> Catch(r, "D", "E") /\ NoWrite
                    [] o = "ok"  ->
                         \E t \in now..MaxTime :
                           /\ Persist(r, "nebius", t)
                           /\ Return(r, LocalUrl(Filename("nebius", t)))
                    [] OTHER     -> Fall(r, "E") /\ NoWrite
       ELSE /\ Fall(r, "E")
            /\ NoWrite
            /\ UNCHANGED <<calls, sent>>
  /\ UNCHANGED <<cfg, upload, env, adviceCalls, advice, resp, synthCalls, prompt>>

\* StepE, trying DALL-E 3 again after it raised.
StepERetry(r) ==
  /\ pc[r] = "E"
  /\ Call(r, "E")
  /\ LET o == env[r].E
     IN CASE o = "exc" -> Catch(r, "E", IF Len(calls[r]) < 7 THEN "E" ELSE "E2")
          [] o = "ok"  -> Return(r, HostedUrl("dall-e-3"))
          [] OTHER     -> Return(r, None)
  /\ NoWrite
  /\ UNCHANGED <<cfg, upload, env, adviceCalls, advice, resp, synthCalls, prompt>>

\* DALL-E 3 with the derived prompt (lines 276-289).
StepE(r) ==
  /\ pc[r] = "E"
  /\ Call(r, "E")
  /\ LET o == env[r].E
     IN CASE o = "exc" -> Catch(r, "E", "E2")
          [] o = "ok"  -> Return(r, HostedUrl("dall-e-3"))
          [] OTHER     -> Return(r, None)
  /\ NoWrite
  /\ UNCHANGED <<cfg, upload, env, adviceCalls, advice, resp, synthCalls, prompt>>

\* DALL-E 2 with the fixed prompt (lines 290-305).
StepE2(r) ==
  /\ pc[r] = "E2"
  /\ Call(r, "E2")
  /\ LET o == env[r].E2
     IN CASE o = "exc" -> Catch(r, "E2", "assemble")
          [] o = "ok"  -> Return(r, HostedUrl("dall-e-2"))
          [] OTHER     -> Return(r, None)
  /\ NoWrite
  /\ UNCHANGED <<cfg, upload, env, adviceCalls, advice, resp, synthCalls, prompt>>

\* ------------------------------------------------- analyze_fashion, part 2

\* Assemble, answering with a server error when there is no image.
AssembleNoImageIsError(r) ==
  /\ pc[r] = "assemble"
  /\ resp' = [resp EXCEPT ![r] =
       IF raised[r] \/ result[r] = None
         THEN [status |-> 500]
         ELSE [status |-> 200,
               text_advice |-> IF advice[r] = EmptyText THEN PLACEHOLDER ELSE advice[r],
               image_url |-> result[r]]]
  /\ pc' = [pc EXCEPT ![r] = "done"]
  /\ UNCHANGED <<cfg, upload, env, calls, caught, raised, result,
                 adviceCalls, advice, dir, written, now, synthCalls, prompt,
                 sent>>

\* Lines 410-428: the response is assembled from the advice and the image
\* reference; an exception that left generate_fashion_image is caught by the
\* handler's except clause.
Assemble(r) ==
  /\ pc[r] = "assemble"
  /\ resp' = [resp EXCEPT ![r] =
       IF raised[r]
         THEN FallbackResponse
         ELSE [status |-> 200,
               text_advice |-> IF advice[r] = EmptyText THEN PLACEHOLDER ELSE advice[r],
               image_url |-> result[r]]]
  /\ pc' = [pc EXCEPT ![r] = "done"]
  /\ UNCHANGED <<cfg, upload, env, calls, caught, raised, result,
                 adviceCalls, advice, dir, written, now, synthCalls, prompt,
                 sent>>

\* ------------------------------------------------------------------ spec

Next ==
  \E r \in Reqs :
    \/ Validate(r)
    \/ Decode(r)
    \/ GetAdvice(r)
    \/ BuildPrompt(r)
    \/ StepA(r)
    \/ StepB(r)
    \/ StepC(r)
    \/ StepD(r)
    \/ StepE(r)
    \/ StepE2(r)
    \/ Assemble(r)

Spec == Init /\ [][Next]_vars

\* Two requests are in flight at once in a fully configured process; for
\* both, the Replicate and gpt-image-1 calls raise, so that both go on to
\* the providers whose images are stored in the generated-images directory.
FullConfig ==
  [replicate |-> TRUE, openai |-> TRUE, stability |-> TRUE,
   nebiusKey |-> TRUE, nebiusFolder |-> TRUE, gemini |-> TRUE]

LocalEnvs ==
  { e \in Envs(FullConfig) :
      /\ e.A = "exc" /\ e.B = "exc"
      /\ e.C \in {"ok", "non200"} /\ e.D \in {"ok", "exc"}
      /\ e.E = "exc" /\ e.E2 = "ok" /\ e.G = "ok" }

InitConc ==
  /\ cfg = FullConfig
  /\ \E u \in [Reqs -> {"image"}], e \in [Reqs -> LocalEnvs] :
       Submitted(Reqs, u, e)

SpecConc == InitConc /\ [][Next]_vars

\* ------------------------------------------------------------ vocabulary
\* of the properties

\* generate_fashion_image has ended for request r and the handler has not
\* yet assembled the response.
SynthEnded(r) == pc[r] = "assemble"

\* The handler has answered request r after running the chain.
Answered(r) == pc[r] = "done" /\ adviceCalls[r] > 0

Attempted(r, s) == \E i \in 1..Len(calls[r]) : calls[r][i] = s

Succeeded(r, s) == Attempted(r, s) /\ env[r][s] = "ok"

Failed(r, s) == Attempted(r, s) /\ env[r][s] \in Fail

IsImageRef(v) == v # None /\ v[1] \in {"remote", "local"}

Pos(s) == CHOOSE i \in 1..Len(Order) : Order[i] = s

\* The image reference step s hands back when it succeeds for request r.
RefOf(r, s) ==
  CASE s = "A"  -> Head(ReplicateOutput("ok"))
    [] s = "B"  -> HostedUrl("gpt-image-1")
    [] s = "E"  -> HostedUrl("dall-e-3")
    [] s = "E2" -> HostedUrl("dall-e-2")
    [] OTHER    -> IF written[r] = << >> THEN None
                   ELSE LocalUrl(written[r][Len(written[r])])

\* ------------------------------------------------------------------- C1

\* C1: generate_fashion_image never raises.  Whatever the configuration and
\* whatever each provider answers, an exception raised in a step is caught
\* by that step's own except clause (never by the function's outer clause,
\* never by the caller), every attempted step that raised has been caught,
\* and the call ends with an image reference or with None.
C1_NeverRaises ==
  \A r \in Reqs :
    /\ ~raised[r]
    /\ \A c \in caught[r] : c[2] = c[1]
    /\ \A s \in Steps :
         (Attempted(r, s) /\ env[r][s] = "exc") => <<s, s>> \in caught[r]
    /\ SynthEnded(r) => (result[r] = None \/ IsImageRef(result[r]))

\* Every one of the six steps raised, and the call returned None.
C1_Witness ==
  \E r \in Reqs :
    /\ SynthEnded(r)
    /\ caught[r] = {<<s, s>> : s \in Steps}
    /\ result[r] = None

\* ------------------------------------------------------------------- C2

\* C2: the call returns None only when the whole chain is exhausted: each
\* of the six steps was attempted and failed, or was not attempted because
\* its own credentials are missing.
C2_NoneOnlyOnExhaustion ==
  \A r \in Reqs :
    (SynthEnded(r) /\ result[r] = None) =>
      \A s \in Steps :
        \/ Failed(r, s)
        \/ ~Attempted(r, s) /\ ~Configured(cfg, s)

\* ------------------------------------------------------------------- C3

\* C3: the chain stops at the first success.  A successful provider call is
\* the last call of its request, the call then ends with that step's image
\* reference, and when Replicate is configured and returns a non-empty list
\* the result is the list's first element and Replicate is the only
\* provider called.
C3_StopsAtFirstSuccess ==
  \A r \in Reqs :
    /\ \A i \in 1..Len(calls[r]) :
         env[r][calls[r][i]] = "ok" =>
           /\ i = Len(calls[r])
           /\ pc[r] \in {"assemble", "done"}
           /\ result[r] = RefOf(r, calls[r][i])
    /\ (cfg.replicate /\ env[r].A = "ok" /\ pc[r] \in {"assemble", "done"}
          /\ adviceCalls[r] > 0) =>
         /\ calls[r] = <<"A">>
         /\ result[r] = ReplicateOutput("ok")[1]

\* Replicate succeeded and the request was answered with the first element
\* of its list, although gpt-image-1 and Stability would have succeeded too.
C3_Witness ==
  \E r \in Reqs :
    /\ pc[r] = "done"
    /\ calls[r] = <<"A">>
    /\ env[r].B = "ok" /\ env[r].C = "ok"
    /\ resp[r].status = 200
    /\ resp[r].image_url = <<"remote", "flux-schnell", 1>>

\* ------------------------------------------------------------------- C4

\* C4: the provider calls of one request are made in the fixed order A, B,
\* C, D, E, E2: the positions of the steps called are strictly increasing,
\* so no step is called twice or before an earlier one, and a request makes
\* at most six calls.
C4_FixedOrder ==
  \A r \in Reqs :
    /\ Len(calls[r]) <= 6
    /\ \A i \in 1..Len(calls[r]) : calls[r][i] \in Steps
    /\ \A i, j \in 1..Len(calls[r]) :
         i < j => Pos(calls[r][i]) < Pos(calls[r][j])

\* All six calls were made.
C4_Witness == \E r \in Reqs : SynthEnded(r) /\ calls[r] = Order

\* ------------------------------------------------------------------- C5

\* C5: Stability is attempted exactly when neither Replicate nor
\* gpt-image-1 has succeeded and its key is configured, and Nebius exactly
\* when none of Replicate, gpt-image-1 and Stability has succeeded and both
\* of its credentials are configured, whatever the other providers'
\* credentials are.
C5_OwnCredentialsOnly ==
  \A r \in Reqs :
    SynthEnded(r) =>
      /\ Attempted(r, "C") <=>
           /\ Configured(cfg, "C")
           /\ \A s \in {"A", "B"} : ~Succeeded(r, s)
      /\ Attempted(r, "D") <=>
           /\ Configured(cfg, "D")
           /\ \A s \in {"A", "B", "C"} : ~Succeeded(r, s)

\* ------------------------------------------------------------------- C6

\* C6: two requests that both store an image in the generated-images
\* directory write different filenames and return different served URLs,
\* and no file of the directory belongs to a request other than the one
\* that first wrote it.
C6_DistinctFiles ==
  \A p, q \in Reqs :
    (p # q /\ written[p] # << >> /\ written[q] # << >>) =>
      /\ \A i \in 1..Len(written[p]), j \in 1..Len(written[q]) :
           written[p][i] # written[q][j]
      /\ (SynthEnded(p) /\ SynthEnded(q)) => result[p] # result[q]
      /\ \A i \in 1..Len(written[p]) :
           [name |-> written[p][i], owner |-> p] \in dir

\* ------------------------------------------------------------------- C7

NoStepSucceeded(r) == \A s \in Steps : ~Succeeded(r, s)

\* C7 (as amended): when every provider step of a request failed or was
\* not attempted, generate_fashion_image returns None and the request is
\* answered with status 200, image_url null and, as text_advice, the text
\* get_fashion_advice_gemini returned, or the placeholder text when that
\* text is empty.
C7_AllFailStillSuccess ==
  \A r \in Reqs :
    (Answered(r) /\ NoStepSucceeded(r)) =>
      /\ result[r] = None
      /\ resp[r].status = 200
      /\ resp[r].image_url = None
      /\ resp[r].text_advice =
           IF advice[r] = EmptyText THEN PLACEHOLDER ELSE advice[r]

\* C7 as stated: ... and the advice text is intact in the response.
C7_AdviceIntact ==
  \A r \in Reqs :
    (Answered(r) /\ NoStepSucceeded(r)) =>
      /\ result[r] = None
      /\ resp[r].status = 200
      /\ resp[r].image_url = None
      /\ resp[r].text_advice = advice[r]

\* All six steps were attempted and failed, in three different ways, and
\* the request was answered with the advice and no image.
C7_Witness ==
  \E r \in Reqs :
    /\ Answered(r)
    /\ calls[r] = Order
    /\ env[r].C = "non200" /\ env[r].D = "empty" /\ env[r].E2 = "empty"
    /\ resp[r] = [status |-> 200, text_advice |-> ADVICE, image_url |-> None]

\* ------------------------------------------------------------------- C8

\* C8: with Replicate, Stability and Nebius unconfigured, gpt-image-1
\* failing, DALL-E 3 failing and the DALL-E 2 retry succeeding, the call
\* returns the retry's image reference, however the two failures happen.
C8_DegradedRetry ==
  \A r \in Reqs :
    ( /\ SynthEnded(r)
      /\ ~Configured(cfg, "A") /\ ~Configured(cfg, "C") /\ ~Configured(cfg, "D")
      /\ env[r].B \in Fail /\ env[r].E \in Fail /\ env[r].E2 = "ok" ) =>
      result[r] = HostedUrl("dall-e-2")

\* ------------------------------------------------------------------- C9

\* C9: a request is answered with an error status exactly when its upload
\* is not an image or the advice provider is unconfigured; every other
\* request is answered with status 200, a non-empty text_advice and an
\* image_url that is an image reference or null.
C9_ErrorStatusIff ==
  \A r \in Reqs :
    pc[r] = "done" =>
      /\ resp[r].status \in {200, 400, 500}
      /\ resp[r].status # 200 <=>
           (~ContentTypeIsImage(upload[r]) \/ ~cfg.gemini)
      /\ resp[r].status = 200 =>
           /\ resp[r].text_advice # EmptyText
           /\ resp[r].image_url = None \/ IsImageRef(resp[r].image_url)

\* The advice call raised and the provider chain was exhausted, and the
\* request was still answered with status 200.
C9_Witness ==
  \E r \in Reqs :
    /\ pc[r] = "done"
    /\ env[r].G = "exc"
    /\ calls[r] = Order
    /\ resp[r] = [status |-> 200, text_advice |-> APOLOGY, image_url |-> None]

\* ------------------------------------------------------------------ C10

\* C10: a request whose upload is not an image, or that reaches a process
\* without the advice provider's key, is rejected with status 400 or 500
\* before any provider call: the advice model and the image providers are
\* never called for it and it writes no file.
C10_RejectedBeforeAnyCall ==
  \A r \in Reqs :
    /\ ( upload[r] # "absent"
         /\ (~ContentTypeIsImage(upload[r]) \/ ~cfg.gemini) ) =>
         /\ pc[r] \in {"validate", "done"}
         /\ pc[r] = "done" => resp[r].status \in {400, 500}
         /\ upload[r] = "nonimage" /\ pc[r] = "done" => resp[r].status = 400
    /\ resp[r].status \in {400, 500} =>
         /\ adviceCalls[r] = 0
         /\ calls[r] = << >>
         /\ written[r] = << >>

\* A decodable image was rejected with status 500 by a process that has
\* every image provider configured but not the advice provider.
C10_Witness ==
  \E r \in Reqs :
    /\ pc[r] = "done"
    /\ upload[r] = "image"
    /\ resp[r].status = 500
    /\ cfg.replicate /\ cfg.openai /\ cfg.stability
    /\ calls[r] = << >> /\ adviceCalls[r] = 0

\* ------------------------------------------------------------ SpecPrompt

\* The pieces the advice texts of SpecPrompt are made of: words with and
\* without vocabulary terms, in lower and upper case, and runs of other
\* characters whose lengths put the texts on both sides of the lengths 720
\* and 800.
PromptPieces ==
  { Piece("navy", 4), Piece("Navy", 4), Piece("blazer", 6),
    Piece("considered", 10), Piece("outfit", 6), EVERYTHING }
  \cup { Pad(n) : n \in {1, 710, 711, 720, 721, 790, 791, 800, 801} }

PromptTexts == UNION { [1..n -> PromptPieces] : n \in 0..MaxPieces }

AllRaise ==
  [A |-> "exc", B |-> "exc", C |-> "exc", D |-> "exc", E |-> "exc",
   E2 |-> "exc"]

\* One request with a decodable image is submitted to a fully configured
\* process; the advice model answers with any of the texts, and every image
\* provider raises, so that the prompt goes to each of them.
InitPrompt ==
  /\ cfg = FullConfig
  /\ \E t \in PromptTexts :
       Submitted({"r1"}, [r \in {"r1"} |-> "image"],
                 [r \in {"r1"} |-> AllRaise @@ [G |-> "ok", T |-> t]])

SpecPrompt == InitPrompt /\ [][Next]_vars

\* The refined prompt of request r has been built.
Built(r) == synthCalls[r] > 0

\* The prompts request r has passed to the providers of steps A to E.
SentRefined(r) ==
  {sent[r][i][3] : i \in {j \in 1..Len(sent[r]) : sent[r][j][1] # "E2"}}

\* The index of the first piece of text t in which the term w occurs as it
\* is written, 0 when there is none.
FirstAt(t, w) ==
  IF \E i \in 1..Len(t) : w \in TermsWithin(t[i][1])
    THEN CHOOSE i \in 1..Len(t) :
           /\ w \in TermsWithin(t[i][1])
           /\ \A j \in 1..(i - 1) : w \notin TermsWithin(t[j][1])
    ELSE 0

\* ------------------------------------------------------------------ C13

\* C13: for an advice text of more than 800 characters in which no
\* vocabulary term occurs, the prompt built, and passed to the providers of
\* steps A to E, is the fixed generic prompt.
C13_GenericFallback ==
  \A r \in Reqs :
    ( /\ Built(r)
      /\ TextLen(advice[r]) > MaxPromptLength
      /\ \A v \in VocabWords : ~Contains(v, advice[r]) ) =>
      /\ prompt[r] = GENERIC_PROMPT
      /\ SentRefined(r) \subseteq {GENERIC_PROMPT}

\* An advice of 806 characters whose only word is "outfit" went to a
\* provider as the generic prompt.
C13_Witness ==
  \E r \in Reqs :
    /\ advice[r] = <<Piece("outfit", 6), Pad(800)>>
    /\ Len(sent[r]) > 0
    /\ sent[r][1] = <<"A", "flux-schnell", GENERIC_PROMPT>>

\* ------------------------------------------------------------------ C14

\* The only words of text a are "navy" and "blazer", in any case, order and
\* number, and both occur.
OnlyNavyBlazer(a) ==
  /\ Contains("navy", a) /\ Contains("blazer", a)
  /\ \A i \in 1..Len(a) :
       a[i] = Pad(a[i][2]) \/ Lower(a[i][1]) \in {"navy", "blazer"}

\* len(prefix): the advice fits behind the prefix up to 800 - 80 characters.
Room == MaxPromptLength - PREFIX[2]

\* C14 (as amended): for an advice whose only words are "navy" and "blazer"
\* and that is longer than 720 characters, the prompt is the keyword prompt
\* with "blazer" before "navy", the order of the vocabulary, whatever their
\* order in the advice; for such an advice of at most 720 characters the
\* prompt is the fixed prefix followed by the advice as it is written.
C14_KeywordOrder ==
  \A r \in Reqs :
    (Built(r) /\ OnlyNavyBlazer(advice[r])) =>
      IF TextLen(advice[r]) > Room
        THEN prompt[r] = <<KEYWORD_PREFIX, Piece("blazer", 6), Piece(" ", 1),
                           Piece("navy", 4)>>
        ELSE prompt[r] = <<PREFIX>> \o advice[r]

\* C14 as stated: for every advice whose only words are "navy" and
\* "blazer", the prompt contains "blazer" and "navy", "blazer" first.
C14_VocabularyOrderAlways ==
  \A r \in Reqs :
    (Built(r) /\ OnlyNavyBlazer(advice[r])) =>
      /\ FirstAt(prompt[r], "blazer") > 0
      /\ FirstAt(prompt[r], "navy") > 0
      /\ FirstAt(prompt[r], "blazer") < FirstAt(prompt[r], "navy")

\* An advice of 721 characters with "navy" before "blazer" went to a
\* provider as the keyword prompt "... blazer navy".
C14_Witness ==
  \E r \in Reqs :
    /\ advice[r] = <<Piece("navy", 4), Pad(711), Piece("blazer", 6)>>
    /\ Len(sent[r]) > 0
    /\ sent[r][1][3] = <<KEYWORD_PREFIX, Piece("blazer", 6), Piece(" ", 1),
                         Piece("navy", 4)>>

\* ------------------------------------------------------------------ C15

\* C15: every prompt passed to an image provider has at most 800
\* characters, whatever the advice text.
C15_PromptWithinBudget ==
  \A r \in Reqs :
    /\ TextLen(prompt[r]) <= MaxPromptLength
    /\ \A i \in 1..Len(sent[r]) : TextLen(sent[r][i][3]) <= MaxPromptLength

\* An advice of 981 characters holding every vocabulary term went to all
\* six providers, as a keyword prompt of 336 characters and as the fixed
\* prompt of 27 characters.
C15_Witness ==
  \E r \in Reqs :
    /\ advice[r] = <<EVERYTHING, Pad(710)>>
    /\ Len(sent[r]) = 6
    /\ TextLen(sent[r][1][3]) = TextLen(<<KEYWORD_PREFIX>> \o Join(Vocabulary))
    /\ TextLen(sent[r][1][3]) > TextLen(GENERIC_PROMPT)
    /\ sent[r][6][3] = DEGRADED_PROMPT

\* ------------------------------------------------------------------ C20

\* C20: the prompt never holds a truncated advice.  For an advice of at
\* most 720 characters it is the prefix followed by the whole advice; for a
\* longer one, also one of 721 to 800 characters, it is the keyword prompt
\* or the generic prompt.
C20_NeverTruncated ==
  \A r \in Reqs :
    Built(r) =>
      /\ TextLen(advice[r]) <= Room => prompt[r] = <<PREFIX>> \o advice[r]
      /\ TextLen(advice[r]) > Room =>
           \/ prompt[r] = GENERIC_PROMPT
           \/ /\ prompt[r][1] = KEYWORD_PREFIX
              /\ Len(prompt[r]) > 1
      /\ prompt[r][1] = PREFIX => Tail(prompt[r]) = advice[r]

\* An advice of exactly 800 characters, within the budget by itself, went
\* to a provider as the keyword prompt.
C20_Witness ==
  \E r \in Reqs :
    /\ advice[r] = <<Piece("navy", 4), Pad(790), Piece("blazer", 6)>>
    /\ Len(sent[r]) > 0
    /\ sent[r][1][3][1] = KEYWORD_PREFIX

\* ------------------------------------------------------------------ C11

\* The request passed both checks made before the try block.
Validated(r) == ContentTypeIsImage(upload[r]) /\ cfg.gemini

\* C11: an exception raised after validation, such as the upload failing to
\* decode, ends in a response with status 200, the generic apology text and
\* no image; no validated request ends with an error status.
C11_ExceptionBecomesApology ==
  \A r \in Reqs :
    (pc[r] = "done" /\ Validated(r)) =>
      /\ resp[r].status = 200
      /\ (~Decodable(upload[r]) \/ raised[r]) =>
           resp[r] = [status |-> 200, text_advice |-> FALLBACK,
                      image_url |-> None]

\* An image/* upload that does not decode was answered with status 200 and
\* the apology, in a process with every provider configured.
C11_Witness ==
  \E r \in Reqs :
    /\ pc[r] = "done"
    /\ upload[r] = "badimage"
    /\ cfg = FullConfig
    /\ resp[r].status = 200 /\ resp[r].text_advice = FALLBACK
    /\ resp[r].image_url = None

\* ------------------------------------------------------------------ C12

\* get_fashion_advice_gemini has returned to the handler for request r.
Advised(r) == pc[r] \in {"prompt", "A", "B", "C", "D", "E", "E2", "assemble"}
              \/ Answered(r)

\* C12: get_fashion_advice_gemini calls the model exactly once, never more,
\* and always returns to the handler: with the fixed apology when the call
\* failed, with the model's text otherwise.
C12_OneAdviceCall ==
  \A r \in Reqs :
    /\ adviceCalls[r] <= 1
    /\ adviceCalls[r] = 1 <=> Advised(r)
    /\ Advised(r) =>
         advice[r] = CASE env[r].G = "ok"    -> env[r].T
                       [] env[r].G = "empty" -> EmptyText
                       [] OTHER              -> APOLOGY

\* The model call raised and the function returned the apology.
C12_Witness ==
  \E r \in Reqs :
    /\ pc[r] = "prompt"
    /\ env[r].G = "exc"
    /\ adviceCalls[r] = 1
    /\ advice[r] = APOLOGY

\* ------------------------------------------------------------------ C16

\* The provider that follows step s in the order.
Succ(s) == Order[Pos(s) + 1]

\* C16: whenever one of the steps A, B, C, D, E is attempted and fails, by
\* an exception, an empty result or a status other than 200, the step that
\* follows it in the order is considered next.
C16_SameNextStep ==
  [][ \A r \in Reqs : \A s \in {"A", "B", "C", "D", "E"} :
        (calls'[r] = Append(calls[r], s) /\ env[r][s] \in Fail) =>
          pc'[r] = Succ(s) ]_vars

\* ------------------------------------------------------------------ C17

\* The entries of request r's call log made by step s.
SentBy(r, s) == {i \in 1..Len(sent[r]) : sent[r][i][1] = s}

\* C17: whenever DALL-E 3's attempt fails, exactly one further attempt is
\* made, with the fixed prompt and the model of the first attempt; the
\* further attempt is made only after DALL-E 3 was attempted and failed,
\* and it is the last call of the request.
C17_OneDegradedAttempt ==
  \A r \in Reqs :
    SynthEnded(r) =>
      /\ Failed(r, "E") =>
           /\ Cardinality(SentBy(r, "E2")) = 1
           /\ \A i \in SentBy(r, "E2"), j \in SentBy(r, "E") :
                /\ sent[r][i][3] = DEGRADED_PROMPT
                /\ sent[r][i][2] = sent[r][j][2]
      /\ Attempted(r, "E2") =>
           /\ Failed(r, "E")
           /\ calls[r][Len(calls[r])] = "E2"

\* ------------------------------------------------------------------ C18

\* The tag of the files step s stores.
TagOf(s) == IF s = "C" THEN "stability" ELSE "nebius"

\* C18: a request writes at most one file, only in a Stability or Nebius
\* step that succeeds, and then returns the local URL of exactly that file;
\* a request that ends with a hosted URL or with no image has written
\* nothing, and no file of the directory is its.
C18_WritesOnlyOnLocalSuccess ==
  \A r \in Reqs :
    /\ Len(written[r]) <= 1
    /\ written[r] # << >> =>
         LET s == calls[r][Len(calls[r])]
             f == written[r][1]
         IN /\ s \in {"C", "D"}
            /\ env[r][s] = "ok"
            /\ f[1] = TagOf(s)
            /\ pc[r] \in {"assemble", "done"}
            /\ result[r] = <<"local", f[1], f[2]>>
            /\ [name |-> f, owner |-> r] \in dir
    /\ written[r] = << >> => \A d \in dir : d.owner # r
    /\ (pc[r] \in {"assemble", "done"} /\ written[r] # << >>) =>
         result[r] # None /\ result[r][1] = "local"
    /\ (\E s \in {"C", "D"} : Succeeded(r, s)) => written[r] # << >>

\* Stability failed, Nebius succeeded, and the request was answered with
\* the URL of the one file it wrote.
C18_Witness ==
  \E r \in Reqs :
    /\ pc[r] = "done"
    /\ calls[r] = <<"A", "B", "C", "D">>
    /\ written[r] = << <<"nebius", 1>> >>
    /\ dir = {[name |-> <<"nebius", 1>>, owner |-> r]}
    /\ resp[r].image_url = <<"local", "nebius", 1>>

\* ------------------------------------------------------------------ C19

\* C19: a request that passes validation and decoding enters
\* generate_fashion_image exactly once, after get_fashion_advice_gemini has
\* returned and with the text it returned; when the advice call failed the
\* prompt is built from the apology and the provider chain runs as usual.
C19_SynthAfterAdvice ==
  \A r \in Reqs :
    /\ synthCalls[r] <= 1
    /\ synthCalls[r] = 1 =>
         /\ adviceCalls[r] = 1
         /\ prompt[r] = RefinedPrompt(advice[r])
    /\ calls[r] # << >> => synthCalls[r] = 1
    /\ (Validated(r) /\ Decodable(upload[r])
          /\ pc[r] \in {"assemble", "done"}) =>
         /\ synthCalls[r] = 1
         /\ cfg.replicate => Attempted(r, "A")
         /\ (cfg.openai /\ ~Succeeded(r, "A")) => Attempted(r, "B")
    /\ (Built(r) /\ env[r].G \notin {"ok", "empty"}) =>
         /\ prompt[r] = <<PREFIX>> \o APOLOGY
         /\ SentRefined(r) \subseteq {<<PREFIX>> \o APOLOGY}

\* The advice call raised, Replicate was asked with the prompt made of the
\* apology, and the request was answered with the apology and an image.
C19_Witness ==
  \E r \in Reqs :
    /\ pc[r] = "done"
    /\ env[r].G = "exc"
    /\ sent[r] = << <<"A", "flux-schnell", <<PREFIX>> \o APOLOGY>> >>
    /\ resp[r] = [status |-> 200, text_advice |-> APOLOGY,
                  image_url |-> <<"remote", "flux-schnell", 1>>]

====
